---- MODULE Spec2Model ----
(***************************************************************************)
(* A model of the discrete event simulator of sim/src/simulator/mod.rs:    *)
(* the Simulation container (models, connectors, pending messages, global  *)
(* time), its stepping protocol and its message router.                    *)
(*                                                                         *)
(* The inner models are trait objects (Box<dyn ReportableModel>); they are *)
(* represented by three small DEVS machines in the shape of the generator, *)
(* processor and storage models the tests build.                           *)
(***************************************************************************)
EXTENDS Integers, Sequences, FiniteSets, TLC

VARIABLES models, order, connectors, messages, global_time, op, ret, calls

vars == <<models, order, connectors, messages, global_time, op, ret, calls>>

(***************************************************************************)
(* Bounds                                                                  *)
(***************************************************************************)
MaxTime == 2
MaxPending == 2
MaxDelay == 2
MaxN == 2

(***************************************************************************)
(* f64 arithmetic on the values the simulator meets: the naturals,         *)
(* +infinity and NaN.                                                      *)
(***************************************************************************)
Infinity == 1000
NaN == Infinity + 1

FMin(a, b) == IF a = NaN THEN b ELSE IF b = NaN THEN a ELSE IF a <= b THEN a ELSE b

FAdd(a, b) ==
    IF a = NaN \/ b = NaN THEN NaN
    ELSE IF a = Infinity \/ b = Infinity THEN Infinity
    ELSE a + b

FSub(a, b) ==
    IF a = NaN \/ b = NaN THEN NaN
    ELSE IF a = Infinity THEN (IF b = Infinity THEN NaN ELSE Infinity)
    ELSE a - b

FLe(a, b) == a # NaN /\ b # NaN /\ a <= b

FLt(a, b) == a # NaN /\ b # NaN /\ a < b

(***************************************************************************)
(* Identifiers, ports and contents                                         *)
(***************************************************************************)
GenId == "generator-01"
ProcId == "processor-01"
StoreId == "storage-01"
GhostId == "storage-88"

ModelMessage(port_name, content) == [port_name |-> port_name, content |-> content]

Message(source_id, source_port, target_id, target_port, time, content) ==
    [source_id |-> source_id, source_port |-> source_port,
     target_id |-> target_id, target_port |-> target_port,
     time |-> time, content |-> content]

Connector(id, source_id, target_id, source_port, target_port) ==
    [id |-> id, source_id |-> source_id, source_port |-> source_port,
     target_id |-> target_id, target_port |-> target_port]

(***************************************************************************)
(* The inner models (DevsModel).  Each handler returns the model's new     *)
(* state, whether it failed, and (events_int) the messages it emits.       *)
(***************************************************************************)
\* generator: emits a job every MaxDelay; processor: serves a job in one time
\* unit; storage: passive, answers a read at once
NewModel(id) ==
    IF id = GenId
    THEN [kind |-> "generator", until |-> MaxDelay, delay |-> MaxDelay, job |-> "none"]
    ELSE IF id = ProcId
    THEN [kind |-> "processor", until |-> Infinity, delay |-> 1, job |-> "none"]
    ELSE [kind |-> "storage", until |-> Infinity, delay |-> 0, job |-> "none"]

until_next_event(m) == m.until

time_advance(m, time_delta) == [m EXCEPT !.until = FSub(m.until, time_delta)]

events_ext(m, incoming) ==
    IF incoming.content = "bad"
    THEN [state |-> m, failed |-> TRUE]
    ELSE IF m.kind = "processor" /\ incoming.port_name = "job"
    THEN [state |-> [m EXCEPT !.until = m.delay, !.job = incoming.content],
          failed |-> FALSE]
    ELSE IF m.kind = "storage" /\ incoming.port_name = "store"
    THEN [state |-> [m EXCEPT !.job = incoming.content], failed |-> FALSE]
    ELSE IF m.kind = "storage" /\ incoming.port_name = "read"
    THEN [state |-> [m EXCEPT !.until = 0], failed |-> FALSE]
    ELSE [state |-> m, failed |-> FALSE]

events_int(m) ==
    IF m.job = "poison"
    THEN [state |-> m, failed |-> TRUE, out |-> <<>>]
    ELSE IF m.kind = "generator"
    THEN [state |-> [m EXCEPT !.until = m.delay], failed |-> FALSE,
          out |-> <<ModelMessage("job", "job")>>]
    ELSE IF m.kind = "processor"
    THEN [state |-> [m EXCEPT !.until = Infinity, !.job = "none"], failed |-> FALSE,
          out |-> <<ModelMessage("processed", m.job)>>]
    ELSE [state |-> [m EXCEPT !.until = Infinity], failed |-> FALSE,
          out |-> <<ModelMessage("stored", m.job)>>]

(***************************************************************************)
(* Call log entries: the calls the simulator makes on its models, with     *)
(* what a spy on the model sees: time_advance records the model's          *)
(* until_next_event() right after the call, events_int the value before    *)
(* the call and the messages returned.                                     *)
(***************************************************************************)
ExtCall(id, mm) == [call |-> "events_ext", model |-> id,
                    port_name |-> mm.port_name, content |-> mm.content]
AdvCall(id, d, u) == [call |-> "time_advance", model |-> id, delta |-> d, until |-> u]
IntCall(id, u, out) == [call |-> "events_int", model |-> id, until |-> u, out |-> out]

(***************************************************************************)
(* Results (SimulationResult)                                              *)
(***************************************************************************)
Ok(value) == [kind |-> "ok", value |-> value]
Err(error) == [kind |-> "err", error |-> error]
Panic == [kind |-> "panic"]
Unit == <<>>

(***************************************************************************)
(* Simulation: pure versions of the methods, over a record of the fields.  *)
(* `order` is the iteration order of the models HashMap.                   *)
(***************************************************************************)
Sim(mdls, ord, conns, msgs, gt) ==
    [models |-> mdls, order |-> ord, connectors |-> conns,
     messages |-> msgs, global_time |-> gt]

\* mutant: the source port is not compared
RECURSIVE get_message_target_tuple_by_id(_, _, _)
get_message_target_tuple_by_id(conns, source_id, source_port) ==
    IF conns = <<>> THEN <<>>
    ELSE LET connector == Head(conns)
             rest == get_message_target_tuple_by_id(Tail(conns), source_id, source_port)
         IN IF connector.source_id = source_id
            THEN <<[target_id |-> connector.target_id,
                    target_port |-> connector.target_port]>> \o rest
            ELSE rest

\* mutant: the two members of the tuple are exchanged
RECURSIVE get_message_target_tuple_port_first(_, _, _)
get_message_target_tuple_port_first(conns, source_id, source_port) ==
    IF conns = <<>> THEN <<>>
    ELSE LET connector == Head(conns)
             rest == get_message_target_tuple_port_first(Tail(conns), source_id,
                                                         source_port)
         IN IF connector.source_id = source_id /\ connector.source_port = source_port
            THEN <<[target_id |-> connector.target_port,
                    target_port |-> connector.target_id]>> \o rest
            ELSE rest

RECURSIVE get_message_target_tuple(_, _, _)
get_message_target_tuple(conns, source_id, source_port) ==
    IF conns = <<>> THEN <<>>
    ELSE LET connector == Head(conns)
             rest == get_message_target_tuple(Tail(conns), source_id, source_port)
         IN IF connector.source_id = source_id /\ connector.source_port = source_port
            THEN <<[target_id |-> connector.target_id,
                    target_port |-> connector.target_port]>> \o rest
            ELSE rest

\* mutant: the message is put in front of the pending set
inject_input_front(msgs, message) == <<message>> \o msgs

inject_input(msgs, message) == Append(msgs, message)

RECURSIVE sim_until_next_event_fold(_, _, _)
sim_until_next_event_fold(mdls, ord, acc) ==
    IF ord = <<>> THEN acc
    ELSE sim_until_next_event_fold(mdls, Tail(ord),
                                   FMin(acc, until_next_event(mdls[Head(ord)])))

\* reduce(f64::min).unwrap().min(INFINITY): the unwrap panics when there is no model
sim_until_next_event(mdls, ord) ==
    IF ord = <<>> THEN Panic
    ELSE Ok(FMin(sim_until_next_event_fold(mdls, Tail(ord),
                                           until_next_event(mdls[Head(ord)])),
                 Infinity))

RECURSIVE sim_time_advance(_, _, _, _)
sim_time_advance(mdls, ord, time_delta, log) ==
    IF ord = <<>> THEN [models |-> mdls, calls |-> log]
    ELSE LET id == Head(ord)
             m == time_advance(mdls[id], time_delta)
         IN sim_time_advance([mdls EXCEPT ![id] = m], Tail(ord), time_delta,
                             Append(log, AdvCall(id, time_delta, until_next_event(m))))

\* mutant: the source port is handed over instead of the target port
ext_model_message_source_port(msg) == ModelMessage(msg.source_port, msg.content)

\* the ModelMessage handed to events_ext for a pending message
ext_model_message(msg) == ModelMessage(msg.target_port, msg.content)

RECURSIVE handle_messages(_, _, _)
handle_messages(mdls, msgs, log) ==
    IF msgs = <<>> THEN [models |-> mdls, calls |-> log, result |-> Ok(Unit)]
    ELSE LET msg == Head(msgs) IN
         IF msg.target_id \notin DOMAIN mdls
         THEN [models |-> mdls, calls |-> log, result |-> Err("ModelNotFound")]
         ELSE LET mm == ext_model_message(msg)
                  r == events_ext(mdls[msg.target_id], mm)
                  mdls2 == [mdls EXCEPT ![msg.target_id] = r.state]
                  log2 == Append(log, ExtCall(msg.target_id, mm))
              IN IF r.failed
                 THEN [models |-> mdls2, calls |-> log2,
                       result |-> Err("ModelEventFailure")]
                 ELSE handle_messages(mdls2, Tail(msgs), log2)

\* mutant: the two port arguments of Message::new are exchanged
new_message_ports_swapped(model_index, outgoing_message, target, gt) ==
    Message(model_index, target.target_port,
            target.target_id, outgoing_message.port_name, gt, outgoing_message.content)

\* mutant: the target's id and port are exchanged
new_message_ids_swapped(model_index, outgoing_message, target, gt) ==
    Message(model_index, outgoing_message.port_name,
            target.target_port, target.target_id, gt, outgoing_message.content)

\* mutant: the message is stamped one time unit late
new_message_stamped_late(model_index, outgoing_message, target, gt) ==
    Message(model_index, outgoing_message.port_name,
            target.target_id, target.target_port, FAdd(gt, 1),
            outgoing_message.content)

\* the Message built for one target of a ModelMessage emitted by model_index
new_message(model_index, outgoing_message, target, gt) ==
    Message(model_index, outgoing_message.port_name,
            target.target_id, target.target_port, gt, outgoing_message.content)

RECURSIVE new_messages(_, _, _, _)
new_messages(model_index, outgoing_message, target_tuple, gt) ==
    IF target_tuple = <<>> THEN <<>>
    ELSE <<new_message(model_index, outgoing_message, Head(target_tuple), gt)>>
         \o new_messages(model_index, outgoing_message, Tail(target_tuple), gt)

RECURSIVE route_outgoing(_, _, _, _)
route_outgoing(model_index, out, conns, gt) ==
    IF out = <<>> THEN <<>>
    ELSE new_messages(model_index, Head(out),
                      get_message_target_tuple(conns, model_index, Head(out).port_name),
                      gt)
         \o route_outgoing(model_index, Tail(out), conns, gt)

\* mutant: a model fires one time unit early
IsDueSoon(m) == until_next_event(m) <= 1

\* mutant: a model fires only once its event is overdue
IsOverdue(m) == until_next_event(m) < 0

\* model_cold.until_next_event() == 0.0
IsDue(m) == until_next_event(m) = 0

RECURSIVE internal_phase(_, _, _, _, _, _)
internal_phase(mdls, ids, conns, gt, next_messages, log) ==
    IF ids = <<>>
    THEN [models |-> mdls, next_messages |-> next_messages, calls |-> log,
          result |-> Ok(Unit)]
    ELSE LET model_index == Head(ids) IN
         IF IsDue(mdls[model_index])
         THEN LET r == events_int(mdls[model_index])
                  mdls2 == [mdls EXCEPT ![model_index] = r.state]
                  log2 == Append(log, IntCall(model_index,
                                              until_next_event(mdls[model_index]),
                                              r.out))
              IN IF r.failed
                 THEN [models |-> mdls2, next_messages |-> next_messages,
                       calls |-> log2, result |-> Err("ModelEventFailure")]
                 ELSE internal_phase(mdls2, Tail(ids), conns, gt,
                                     next_messages
                                       \o route_outgoing(model_index, r.out, conns, gt),
                                     log2)
         ELSE internal_phase(mdls, Tail(ids), conns, gt, next_messages, log)

\* mutant: the pending set is not looked at
step_delta_always_min(mdls, ord, msgs) == sim_until_next_event(mdls, ord)

\* the time delta of a step, computed after the external phase
step_delta(mdls, ord, msgs) ==
    IF msgs = <<>> THEN sim_until_next_event(mdls, ord) ELSE Ok(0)

\* mutant: the delta is stored instead of added
advance_global_time_set(gt, until) == until

\* services.set_global_time(services.global_time() + until_next_event)
advance_global_time(gt, until) == FAdd(gt, until)

\* mutant: the pending set is emptied when the external phase fails
external_failure_clears(s, ext) ==
    [sim |-> [s EXCEPT !.models = ext.models, !.messages = <<>>], ret |-> ext.result,
     calls |-> ext.calls, failed_in |-> "external", next_messages |-> <<>>]

\* mutant: the models are put back as they were when the external phase fails
external_failure_rolls_back(s, ext) ==
    [sim |-> s, ret |-> ext.result,
     calls |-> ext.calls, failed_in |-> "external", next_messages |-> <<>>]

\* handle_messages(..)? returned an error: the step ends there
external_failure(s, ext) ==
    [sim |-> [s EXCEPT !.models = ext.models], ret |-> ext.result,
     calls |-> ext.calls, failed_in |-> "external", next_messages |-> <<>>]

\* mutant: the partial next wave is stored as the pending set before the error
\* is returned
internal_failure_keeps_buffer(s, int, gt) ==
    [sim |-> [s EXCEPT !.models = int.models, !.global_time = gt,
                       !.messages = int.next_messages],
     ret |-> int.result, calls |-> int.calls, failed_in |-> "internal",
     next_messages |-> int.next_messages]

\* errors? returned an error: the step ends there, next_messages is dropped
internal_failure(s, int, gt) ==
    [sim |-> [s EXCEPT !.models = int.models, !.global_time = gt],
     ret |-> int.result, calls |-> int.calls, failed_in |-> "internal",
     next_messages |-> int.next_messages]

\* mutant: the next wave is added to the pending set instead of replacing it
swap_keep_pending(s, int, gt) ==
    LET s2 == [s EXCEPT !.models = int.models, !.global_time = gt,
                        !.messages = s.messages \o int.next_messages]
    IN [sim |-> s2, ret |-> Ok(s2.messages), calls |-> int.calls,
        failed_in |-> "none", next_messages |-> int.next_messages]

\* self.messages = next_messages; Ok(self.get_messages().clone())
swap(s, int, gt) ==
    LET s2 == [s EXCEPT !.models = int.models, !.global_time = gt,
                        !.messages = int.next_messages]
    IN [sim |-> s2, ret |-> Ok(s2.messages), calls |-> int.calls,
        failed_in |-> "none", next_messages |-> int.next_messages]

\* mutant: the time advance is done before the external events are dispatched
step_advance_first(s) ==
    LET delta == step_delta(s.models, s.order, s.messages) IN
    IF delta.kind = "panic"
    THEN [sim |-> s, ret |-> Panic, calls |-> <<>>,
          failed_in |-> "until_next_event", next_messages |-> <<>>]
    ELSE LET until == delta.value
             adv == sim_time_advance(s.models, s.order, until, <<>>)
             ext == handle_messages(adv.models, s.messages, adv.calls)
             gt == advance_global_time(s.global_time, until)
         IN IF ext.result.kind = "err" THEN external_failure(s, ext)
            ELSE LET int == internal_phase(ext.models, s.order, s.connectors, gt,
                                           <<>>, ext.calls)
                 IN IF int.result.kind = "err"
                    THEN internal_failure(s, int, gt)
                    ELSE swap(s, int, gt)

step(s) ==
    LET ext == handle_messages(s.models, s.messages, <<>>) IN
    IF ext.result.kind = "err" THEN external_failure(s, ext)
    ELSE LET delta == step_delta(ext.models, s.order, s.messages) IN
         IF delta.kind = "panic"
         THEN [sim |-> [s EXCEPT !.models = ext.models], ret |-> Panic,
               calls |-> ext.calls, failed_in |-> "until_next_event",
               next_messages |-> <<>>]
         ELSE LET until == delta.value
                  adv == sim_time_advance(ext.models, s.order, until, ext.calls)
                  gt == advance_global_time(s.global_time, until)
                  int == internal_phase(adv.models, s.order, s.connectors, gt,
                                        <<>>, adv.calls)
              IN IF int.result.kind = "err"
                 THEN internal_failure(s, int, gt)
                 ELSE swap(s, int, gt)

\* what a caller sees after one step of step_n / step_until
StepRecord(r) ==
    [ret |-> r.ret, failed_in |-> r.failed_in, global_time |-> r.sim.global_time,
     messages |-> r.sim.messages]

\* the element of a singleton set: binds the result of one call as a value
TheOne(S) == CHOOSE x \in S : TRUE

\* loop { self.step()?; if global_time < until { extend } else { break } }
RECURSIVE step_until_loop(_, _, _, _, _)
RECURSIVE step_until_after(_, _, _, _, _)
\* mutant: the loop goes on while global_time <= until
step_until_after_le(r, until, message_records, trace, log) ==
    IF r.ret.kind # "ok"
    THEN [sim |-> r.sim, ret |-> r.ret, calls |-> log \o r.calls,
          trace |-> Append(trace, StepRecord(r))]
    ELSE IF FLe(r.sim.global_time, until)
    THEN step_until_loop(r.sim, until, message_records \o r.sim.messages,
                         Append(trace, StepRecord(r)), log \o r.calls)
    ELSE [sim |-> r.sim, ret |-> Ok(message_records), calls |-> log \o r.calls,
          trace |-> Append(trace, StepRecord(r))]

step_until_after(r, until, message_records, trace, log) ==
    IF r.ret.kind # "ok"
    THEN [sim |-> r.sim, ret |-> r.ret, calls |-> log \o r.calls,
          trace |-> Append(trace, StepRecord(r))]
    ELSE IF FLt(r.sim.global_time, until)
    THEN step_until_loop(r.sim, until, message_records \o r.sim.messages,
                         Append(trace, StepRecord(r)), log \o r.calls)
    ELSE [sim |-> r.sim, ret |-> Ok(message_records), calls |-> log \o r.calls,
          trace |-> Append(trace, StepRecord(r))]

step_until_loop(s, until, message_records, trace, log) ==
    TheOne({step_until_after(r, until, message_records, trace, log) : r \in {step(s)}})

step_until(s, until) == step_until_loop(s, until, <<>>, <<>>, <<>>)

\* (0..n).map(|_| { self.step()?; extend; Ok(..) }).find(is_err).unwrap_or(Ok(records))
RECURSIVE step_n_loop(_, _, _, _, _)
RECURSIVE step_n_after(_, _, _, _, _)
\* mutant: the messages of a step are not added to the records
step_n_after_no_extend(r, n, message_records, trace, log) ==
    IF r.ret.kind # "ok"
    THEN [sim |-> r.sim, ret |-> r.ret, calls |-> log \o r.calls,
          trace |-> Append(trace, StepRecord(r))]
    ELSE step_n_loop(r.sim, n - 1, message_records,
                     Append(trace, StepRecord(r)), log \o r.calls)

step_n_after(r, n, message_records, trace, log) ==
    IF r.ret.kind # "ok"
    THEN [sim |-> r.sim, ret |-> r.ret, calls |-> log \o r.calls,
          trace |-> Append(trace, StepRecord(r))]
    ELSE step_n_loop(r.sim, n - 1, message_records \o r.sim.messages,
                     Append(trace, StepRecord(r)), log \o r.calls)

step_n_loop(s, n, message_records, trace, log) ==
    IF n = 0
    THEN [sim |-> s, ret |-> Ok(message_records), calls |-> log, trace |-> trace]
    ELSE TheOne({step_n_after(r, n, message_records, trace, log) : r \in {step(s)}})

\* mutant: the range is 0..=n
step_n_inclusive(s, n) == step_n_loop(s, n + 1, <<>>, <<>>, <<>>)

step_n(s, n) == step_n_loop(s, n, <<>>, <<>>, <<>>)

(***************************************************************************)
(* Checker (checker/mod.rs): the checks read the simulation, they change   *)
(* nothing.  get_models().iter() visits the entries of the models map in   *)
(* its iteration order; an error is the text the check formats, kept as    *)
(* the record of its parts.                                                *)
(***************************************************************************)
\* itertools duplicates_by: the keys met a second time, each reported once
RECURSIVE duplicates_by(_, _, _)
duplicates_by(ids, seen, reported) ==
    IF ids = <<>> THEN <<>>
    ELSE LET id == Head(ids) IN
         IF id \in seen /\ id \notin reported
         THEN <<id>> \o duplicates_by(Tail(ids), seen, reported \cup {id})
         ELSE duplicates_by(Tail(ids), seen \cup {id}, reported)

RECURSIVE model_hash_try_loop(_, _)
model_hash_try_loop(ids, models_by_id) ==
    IF ids = <<>> THEN Ok(models_by_id)
    ELSE IF Head(ids) \in models_by_id
    THEN Err([text |-> "Model with id already exists", id |-> Head(ids)])
    ELSE model_hash_try_loop(Tail(ids), models_by_id \cup {Head(ids)})

\* the ids of the models, or the error for the first id met twice
model_hash_try(s) == model_hash_try_loop(s.order, {})

unique_model_ids(s) ==
    LET dups == duplicates_by(s.order, {}, {})
    IN IF Len(dups) = 0 THEN Ok(Unit)
       ELSE Err([text |-> "Duplicate Model ids found", ids |-> dups])

RECURSIVE connectors_source_loop(_, _)
connectors_source_loop(conns, model_hash) ==
    IF conns = <<>> THEN Ok(Unit)
    ELSE IF Head(conns).source_id \in model_hash
    THEN connectors_source_loop(Tail(conns), model_hash)
    ELSE Err([text |-> "Connector model not found with source_id",
              connector |-> Head(conns).id, id |-> Head(conns).source_id])

\* model_hash_try().unwrap() panics on a duplicated id
connectors_source_to_model(s) ==
    LET model_hash == model_hash_try(s)
    IN IF model_hash.kind = "err" THEN Panic
       ELSE connectors_source_loop(s.connectors, model_hash.value)

\* mutant: the target check looks at the source_id
RECURSIVE connectors_target_loop_by_source(_, _)
connectors_target_loop_by_source(conns, model_hash) ==
    IF conns = <<>> THEN Ok(Unit)
    ELSE IF Head(conns).source_id \in model_hash
    THEN connectors_target_loop_by_source(Tail(conns), model_hash)
    ELSE Err([text |-> "Connector model not found with target_id",
              connector |-> Head(conns).id, id |-> Head(conns).source_id])

\* the text names target_id and is given connector.source_id()
RECURSIVE connectors_target_loop(_, _)
connectors_target_loop(conns, model_hash) ==
    IF conns = <<>> THEN Ok(Unit)
    ELSE IF Head(conns).target_id \in model_hash
    THEN connectors_target_loop(Tail(conns), model_hash)
    ELSE Err([text |-> "Connector model not found with target_id",
              connector |-> Head(conns).id, id |-> Head(conns).source_id])

connectors_target_to_model(s) ==
    LET model_hash == model_hash_try(s)
    IN IF model_hash.kind = "err" THEN Panic
       ELSE connectors_target_loop(s.connectors, model_hash.value)

RECURSIVE valid_messages_loop(_, _, _)
valid_messages_loop(msgs, index, model_hash) ==
    IF msgs = <<>> THEN Ok(Unit)
    ELSE IF Head(msgs).target_id \in model_hash
    THEN valid_messages_loop(Tail(msgs), index + 1, model_hash)
    ELSE Err([text |-> "Pending message with target id model not found",
              index |-> index, id |-> Head(msgs).target_id])

\* mutant: the pending messages are not looked at
valid_messages_skipped(s) ==
    LET model_hash == model_hash_try(s)
    IN IF model_hash.kind = "err" THEN Panic ELSE Ok(Unit)

valid_messages(s) ==
    LET model_hash == model_hash_try(s)
    IN IF model_hash.kind = "err" THEN Panic
       ELSE valid_messages_loop(s.messages, 0, model_hash.value)

\* mutant: the last error is returned
RECURSIVE last_error(_)
last_error(checks) ==
    IF checks = <<>> THEN Ok(Unit)
    ELSE IF last_error(Tail(checks)).kind = "err" THEN last_error(Tail(checks))
    ELSE IF Head(checks).kind = "err" THEN Head(checks)
    ELSE Ok(Unit)

\* try_for_each over the four results: the first error, else Ok
RECURSIVE first_error(_)
first_error(checks) ==
    IF checks = <<>> THEN Ok(Unit)
    ELSE IF Head(checks).kind = "err" THEN Head(checks)
    ELSE first_error(Tail(checks))

\* the four checks are all run while the array is built, then the results are
\* read in order
check(s) ==
    LET checks == <<unique_model_ids(s), connectors_source_to_model(s),
                    connectors_target_to_model(s), valid_messages(s)>>
    IN IF \E i \in 1..Len(checks) : checks[i].kind = "panic" THEN Panic
       ELSE first_error(checks)

(***************************************************************************)
(* Configurations: the model lists and connector lists given to post/put.  *)
(***************************************************************************)
ModelLists == {<<GenId, ProcId, StoreId>>, <<GenId, ProcId>>, <<StoreId>>, <<>>}

Connectors01 ==
    <<Connector("connector-01", GenId, ProcId, "job", "job"),
      Connector("connector-02", ProcId, StoreId, "processed", "store")>>

ConnectorsBad ==
    Connectors01
    \o <<Connector("connector-fake", "processor-99", GhostId, "processed", "store")>>

ConnectorsFanout ==
    <<Connector("connector-01", GenId, ProcId, "job", "job"),
      Connector("connector-03", GenId, StoreId, "job", "store"),
      Connector("connector-02", ProcId, StoreId, "processed", "store"),
      Connector("connector-04", StoreId, ProcId, "stored", "job")>>

ConnectorLists == {Connectors01, ConnectorsFanout}

\* a chain in which the generator's job reaches the read port of the storage and
\* the storage's answer reaches the processor: two waves follow each other
ConnectorsChain ==
    <<Connector("connector-01", GenId, ProcId, "job", "job"),
      Connector("connector-05", GenId, StoreId, "job", "read"),
      Connector("connector-04", StoreId, ProcId, "stored", "job")>>

RunModelLists == {<<GenId, ProcId, StoreId>>, <<StoreId>>, <<>>}

RunConnectorLists == {ConnectorsFanout, ConnectorsChain}

\* the model list with two ids given twice, and the lists the checker is run on
ModelsDup == <<GenId, GenId, ProcId, StoreId, StoreId>>

CheckerModelLists == {<<GenId, ProcId, StoreId>>, <<GenId, ProcId>>, <<StoreId>>, ModelsDup}

\* the first connector alone: it resolves without the storage
ConnectorsJob == <<Connector("connector-01", GenId, ProcId, "job", "job")>>

CheckerConnectorLists == {Connectors01, ConnectorsBad, ConnectorsJob}

InjectSet ==
    {Message(GenId, "job", StoreId, "read", 1, "testing"),
     Message(GenId, "job", ProcId, "job", 1, "bad"),
     Message(GenId, "job", ProcId, "job", 1, "poison")}

Range(seq) == {seq[i] : i \in 1..Len(seq)}

\* the possible iteration orders of a HashMap with the given keys
Orders(keys) ==
    {o \in [1..Cardinality(keys) -> keys] : Range(o) = keys}

\* models.iter().map(|m| (m.id(), m.clone())).collect(): a later entry replaces
\* an earlier one with the same id
ModelMap(list) == [id \in Range(list) |-> NewModel(id)]

(***************************************************************************)
(* State                                                                   *)
(***************************************************************************)
CurrentSim == Sim(models, order, connectors, messages, global_time)

Alive == ret.kind # "panic"

Install(s) ==
    /\ models' = s.models
    /\ order' = s.order
    /\ connectors' = s.connectors
    /\ messages' = s.messages
    /\ global_time' = s.global_time

\* Simulation::post
Init ==
    \E list \in ModelLists, conns \in ConnectorLists :
        /\ models = ModelMap(list)
        /\ order \in Orders(Range(list))
        /\ connectors = conns
        /\ messages = <<>>
        /\ global_time = 0
        /\ op = [name |-> "post"]
        /\ ret = Ok(Unit)
        /\ calls = <<>>

TimeInBounds(t) == t = Infinity \/ FLe(t, MaxTime)

Step ==
    /\ Alive
    /\ \E r \in {step(CurrentSim)} :
       /\ TimeInBounds(r.sim.global_time)
       /\ Install(r.sim)
       /\ ret' = r.ret
       /\ calls' = r.calls
       /\ op' = [name |-> "step", failed_in |-> r.failed_in,
                 next_messages |-> r.next_messages]

InjectInput ==
    /\ Alive
    /\ Len(messages) < MaxPending
    /\ \E message \in InjectSet :
        /\ messages' = inject_input(messages, message)
        /\ op' = [name |-> "inject_input", message |-> message]
    /\ ret' = Ok(Unit)
    /\ calls' = <<>>
    /\ UNCHANGED <<models, order, connectors, global_time>>

\* mutant: put clears the pending set
PutClearsMessages ==
    /\ Alive
    /\ \E list \in ModelLists, conns \in ConnectorLists :
        /\ models' = ModelMap(list)
        /\ order' \in Orders(Range(list))
        /\ connectors' = conns
    /\ messages' = <<>>
    /\ op' = [name |-> "put"]
    /\ ret' = Ok(Unit)
    /\ calls' = <<>>
    /\ UNCHANGED global_time

Put ==
    /\ Alive
    /\ \E list \in ModelLists, conns \in ConnectorLists :
        /\ models' = ModelMap(list)
        /\ order' \in Orders(Range(list))
        /\ connectors' = conns
    /\ op' = [name |-> "put"]
    /\ ret' = Ok(Unit)
    /\ calls' = <<>>
    /\ UNCHANGED <<messages, global_time>>

ResetMessages ==
    /\ Alive
    /\ messages' = <<>>
    /\ op' = [name |-> "reset_messages"]
    /\ ret' = Ok(Unit)
    /\ calls' = <<>>
    /\ UNCHANGED <<models, order, connectors, global_time>>

ResetGlobalTime ==
    /\ Alive
    /\ global_time' = 0
    /\ op' = [name |-> "reset_global_time"]
    /\ ret' = Ok(Unit)
    /\ calls' = <<>>
    /\ UNCHANGED <<models, order, connectors, messages>>

\* mutant: reset clears the pending set only
ResetWithoutTime ==
    /\ Alive
    /\ messages' = <<>>
    /\ op' = [name |-> "reset"]
    /\ ret' = Ok(Unit)
    /\ calls' = <<>>
    /\ UNCHANGED <<models, order, connectors, global_time>>

Reset ==
    /\ Alive
    /\ messages' = <<>>
    /\ global_time' = 0
    /\ op' = [name |-> "reset"]
    /\ ret' = Ok(Unit)
    /\ calls' = <<>>
    /\ UNCHANGED <<models, order, connectors>>

StepN ==
    /\ Alive
    /\ \E n \in 0..MaxN : \E r \in {step_n(CurrentSim, n)} :
        /\ \A i \in 1..Len(r.trace) : TimeInBounds(r.trace[i].global_time)
        /\ Install(r.sim)
        /\ ret' = r.ret
        /\ calls' = r.calls
        /\ op' = [name |-> "step_n", n |-> n, trace |-> r.trace]

StepUntil ==
    /\ Alive
    /\ \E until \in 0..MaxTime : \E r \in {step_until(CurrentSim, until)} :
        /\ \A i \in 1..Len(r.trace) : TimeInBounds(r.trace[i].global_time)
        /\ Install(r.sim)
        /\ ret' = r.ret
        /\ calls' = r.calls
        /\ op' = [name |-> "step_until", until |-> until, trace |-> r.trace]

Next ==
    \/ Step
    \/ InjectInput
    \/ Put
    \/ ResetMessages
    \/ ResetGlobalTime
    \/ Reset

Spec == Init /\ [][Next]_vars

\* the stepping operations, with injection between them
NextRun ==
    \/ Step
    \/ StepN
    \/ StepUntil
    \/ InjectInput

\* Simulation::post, for the configurations the runs are made on
InitRun ==
    \E list \in RunModelLists, conns \in RunConnectorLists :
        /\ models = ModelMap(list)
        /\ order \in Orders(Range(list))
        /\ connectors = conns
        /\ messages = <<>>
        /\ global_time = 0
        /\ op = [name |-> "post", models |-> list]
        /\ ret = Ok(Unit)
        /\ calls = <<>>

SpecRun == InitRun /\ [][NextRun]_vars

\* Simulation::post, for the configurations the checker is run on
InitChecker ==
    \E list \in CheckerModelLists, conns \in CheckerConnectorLists :
        /\ models = ModelMap(list)
        /\ order \in Orders(Range(list))
        /\ connectors = conns
        /\ messages = <<>>
        /\ global_time = 0
        /\ op = [name |-> "post", models |-> list]
        /\ ret = Ok(Unit)
        /\ calls = <<>>

\* Checker::check
Check ==
    /\ Alive
    /\ ret' = check(CurrentSim)
    /\ op' = [name |-> "check"]
    /\ calls' = <<>>
    /\ UNCHANGED <<models, order, connectors, messages, global_time>>

\* Checker::unique_model_ids, called on the simulation post has just built
UniqueModelIds ==
    /\ Alive
    /\ op.name = "post"
    /\ ret' = unique_model_ids(CurrentSim)
    /\ op' = [name |-> "unique_model_ids", models |-> op.models]
    /\ calls' = <<>>
    /\ UNCHANGED <<models, order, connectors, messages, global_time>>

\* the checks, with injection and stepping between them
NextChecker ==
    \/ Check
    \/ UniqueModelIds
    \/ InjectInput
    \/ Step

SpecChecker == InitChecker /\ [][NextChecker]_vars

(***************************************************************************)
(* Reading the call log of the last operation                              *)
(***************************************************************************)
CallsOf(log, kind) == SelectSeq(log, LAMBDA c : c.call = kind)

HasCall(log, kind, id) ==
    \E i \in 1..Len(log) : log[i].call = kind /\ log[i].model = id

PhaseRank(c) ==
    IF c.call = "events_ext" THEN 1 ELSE IF c.call = "time_advance" THEN 2 ELSE 3

\* the events_ext calls that deliver the pending messages msgs, one by one
ExpectedExt(msgs) ==
    [i \in 1..Len(msgs) |->
        [call |-> "events_ext", model |-> msgs[i].target_id,
         port_name |-> msgs[i].target_port, content |-> msgs[i].content]]

IsPrefix(a, b) == Len(a) <= Len(b) /\ \A i \in 1..Len(a) : a[i] = b[i]

\* the model was due after the time advance of the step
DueAfterAdvance(log, id) ==
    \E i \in 1..Len(log) :
        log[i].call = "time_advance" /\ log[i].model = id /\ log[i].until = 0

Pos(seq, x) == CHOOSE i \in 1..Len(seq) : seq[i] = x

\* the step ended at a failing events_int, and id comes after the failing model
\* in the iteration order of the models
CutOffBy(log, ord, id, result) ==
    /\ result.kind = "err"
    /\ log # <<>>
    /\ log[Len(log)].call = "events_int"
    /\ Pos(ord, log[Len(log)].model) < Pos(ord, id)

(***************************************************************************)
(* C1                                                                      *)
(***************************************************************************)
PhasesInOrder(log, pending, ids) ==
    /\ \A i, j \in 1..Len(log) : i < j => PhaseRank(log[i]) <= PhaseRank(log[j])
    /\ (\E i \in 1..Len(log) : log[i].call = "time_advance")
           => CallsOf(log, "events_ext") = ExpectedExt(pending)
    /\ (\E i \in 1..Len(log) : log[i].call = "events_int")
           => \A id \in ids : HasCall(log, "time_advance", id)

ReceivedAndDue(log, id) ==
    HasCall(log, "events_ext", id) /\ DueAfterAdvance(log, id)

\* C1 as stated: in every step the events_ext calls for the pending messages come
\* first, then time_advance on every model, then the events_int calls; and every
\* model that received an external event and is due after the advance fires
\* events_int in that step.
C1_AsStated ==
    [][op'.name = "step" =>
          /\ PhasesInOrder(calls', messages, DOMAIN models)
          /\ \A id \in DOMAIN models :
                ReceivedAndDue(calls', id) => HasCall(calls', "events_int", id)]_vars

\* C1 (amended): the three phases are ordered as stated in every step; a model
\* that received an external event and is due after the advance fires events_int
\* in that step unless the events_int of a model earlier in the iteration order
\* failed, which ends the step.
C1_PhaseOrder ==
    [][op'.name = "step" =>
          /\ PhasesInOrder(calls', messages, DOMAIN models)
          /\ \A id \in DOMAIN models :
                ReceivedAndDue(calls', id) =>
                    \/ HasCall(calls', "events_int", id)
                    \/ CutOffBy(calls', order, id, ret')]_vars

C1_Witness ==
    /\ op.name = "step"
    /\ ret.kind = "ok"
    /\ \E i, j, k \in 1..Len(calls) :
        /\ i < j /\ j < k
        /\ calls[i].call = "events_ext"
        /\ calls[j].call = "time_advance" /\ calls[j].until = 0
        /\ calls[k].call = "events_int"
        /\ calls[i].model = calls[j].model /\ calls[j].model = calls[k].model

(***************************************************************************)
(* C2                                                                      *)
(***************************************************************************)
\* the least until_next_event() of the models (f64::min skips NaN), +infinity
\* when there is none
MinUntil(mdls) ==
    LET vals == {mdls[id].until : id \in DOMAIN mdls} \ {NaN}
    IN IF vals = {} THEN Infinity ELSE CHOOSE v \in vals : \A w \in vals : v <= w

ExpectedDelta(mdls, pending) == IF pending # <<>> THEN 0 ELSE MinUntil(mdls)

Plus(t, d) == IF t = Infinity \/ d = Infinity THEN Infinity ELSE t + d

AdvancedOnceBy(log, ids, d) ==
    /\ \A id \in ids :
        Cardinality({i \in 1..Len(log) :
                        log[i].call = "time_advance" /\ log[i].model = id}) = 1
    /\ \A i \in 1..Len(log) :
        log[i].call = "time_advance" => log[i].delta = d /\ log[i].model \in ids

FiredOnlyIfDue(log) ==
    \A k \in 1..Len(log) :
        log[k].call = "events_int" =>
            log[k].until = 0 /\ DueAfterAdvance(log, log[k].model)

FiredAtMostOnce(log) ==
    \A i, j \in 1..Len(log) :
        (i < j /\ log[i].call = "events_int" /\ log[j].call = "events_int")
            => log[i].model # log[j].model

\* C3 as stated: in a step events_int is invoked on a model exactly when its
\* until_next_event() is 0 after the time advance, and at most once.
C3_AsStated ==
    op.name = "step" =>
        /\ FiredOnlyIfDue(calls)
        /\ FiredAtMostOnce(calls)
        /\ \A id \in DOMAIN models :
            DueAfterAdvance(calls, id) => HasCall(calls, "events_int", id)

\* C3 (amended): events_int is invoked only on models whose until_next_event()
\* is 0 after the time advance, at most once per model; every such model is
\* invoked unless the events_int of a model earlier in the iteration order
\* failed, which ends the step.
C3_FiresWhenDue ==
    op.name = "step" =>
        /\ FiredOnlyIfDue(calls)
        /\ FiredAtMostOnce(calls)
        /\ \A id \in DOMAIN models :
            DueAfterAdvance(calls, id) =>
                \/ HasCall(calls, "events_int", id)
                \/ CutOffBy(calls, order, id, ret)

\* a successful step in which one model fired and another, not due, did not
C3_Witness ==
    /\ op.name = "step"
    /\ ret.kind = "ok"
    /\ \E k \in 1..Len(calls) : calls[k].call = "events_int"
    /\ \E i \in 1..Len(calls) :
        /\ calls[i].call = "time_advance"
        /\ calls[i].until # 0
        /\ ~HasCall(calls, "events_int", calls[i].model)

(***************************************************************************)
(* C4                                                                      *)
(***************************************************************************)
\* msg was emitted by an events_int call of the step and routed by a connector
EmittedAndRouted(msg, log, conns) ==
    /\ \E k \in 1..Len(log) :
        /\ log[k].call = "events_int"
        /\ log[k].model = msg.source_id
        /\ \E n \in 1..Len(log[k].out) :
            /\ log[k].out[n].port_name = msg.source_port
            /\ log[k].out[n].content = msg.content
    /\ \E c \in 1..Len(conns) :
        /\ conns[c].source_id = msg.source_id
        /\ conns[c].source_port = msg.source_port
        /\ conns[c].target_id = msg.target_id
        /\ conns[c].target_port = msg.target_port

\* C4: every message of the next-wave buffer of a step carries the emitting model
\* as source_id, the emitted port and content, the target of a connector from
\* that (model, port), and the global_time reached by the step's time advance.
C4_MessageFields ==
    op.name = "step" =>
        \A n \in 1..Len(op.next_messages) :
            /\ EmittedAndRouted(op.next_messages[n], calls, connectors)
            /\ op.next_messages[n].time = global_time

\* a step that advanced time and produced messages
C4_Witness ==
    /\ op.name = "step"
    /\ op.next_messages # <<>>
    /\ global_time >= 1
    /\ \E i \in 1..Len(calls) : calls[i].call = "time_advance" /\ calls[i].delta >= 1

(***************************************************************************)
(* C5                                                                      *)
(***************************************************************************)
RECURSIVE Flatten(_)
Flatten(seqs) == IF seqs = <<>> THEN <<>> ELSE Head(seqs) \o Flatten(Tail(seqs))

Matching(conns, id, port) ==
    SelectSeq(conns, LAMBDA c : c.source_id = id /\ c.source_port = port)

\* one message per matching connector, in declaration order
Routed(conns, id, mm, t) ==
    LET hits == Matching(conns, id, mm.port_name)
    IN [i \in 1..Len(hits) |->
           [source_id |-> id, source_port |-> mm.port_name,
            target_id |-> hits[i].target_id, target_port |-> hits[i].target_port,
            time |-> t, content |-> mm.content]]

ExpectedBuffer(log, conns, t) ==
    LET ints == CallsOf(log, "events_int")
    IN Flatten([k \in 1..Len(ints) |->
                   Flatten([n \in 1..Len(ints[k].out) |->
                               Routed(conns, ints[k].model, ints[k].out[n], t)])])

SourceIds == {GenId, ProcId, StoreId, "processor-99"}
Ports == {"job", "processed", "stored", "store", "read"}

\* C5: the router gives, for an emitting (model, port), exactly the targets of the
\* connectors that match both, in declaration order (none when nothing matches),
\* and the next-wave buffer of a step holds exactly one message per such target.
C5_Fanout ==
    /\ \A id \in SourceIds, port \in Ports :
        LET hits == Matching(connectors, id, port)
        IN get_message_target_tuple(connectors, id, port)
            = [i \in 1..Len(hits) |->
                  [target_id |-> hits[i].target_id, target_port |-> hits[i].target_port]]
    /\ op.name = "step" => op.next_messages = ExpectedBuffer(calls, connectors, global_time)

\* one emission of the generator fanned out to two targets, in declaration order
C5_Witness ==
    /\ op.name = "step"
    /\ ret.kind = "ok"
    /\ connectors = ConnectorsFanout
    /\ Len(CallsOf(calls, "events_int")) = 1
    /\ HasCall(calls, "events_int", GenId)
    /\ Len(messages) = 2
    /\ messages[1].target_id = ProcId
    /\ messages[2].target_id = StoreId

(***************************************************************************)
(* C6                                                                      *)
(***************************************************************************)
\* C6: after a successful step the pending set is exactly what the internal phase
\* of that step produced (nothing pending before the step is left), and step
\* returned that same list.
C6_PendingReplaced ==
    (op.name = "step" /\ ret.kind = "ok") =>
        /\ messages = ExpectedBuffer(calls, connectors, global_time)
        /\ ret.value = messages

\* a successful step that consumed pending messages and produced other ones
C6_Witness ==
    /\ op.name = "step"
    /\ ret.kind = "ok"
    /\ \E i \in 1..Len(calls) : calls[i].call = "events_ext"
    /\ messages # <<>>

(***************************************************************************)
(* C7                                                                      *)
(***************************************************************************)
AllTargetsExist(msgs, ids) == \A i \in 1..Len(msgs) : msgs[i].target_id \in ids

\* C7 as stated: the pending messages are delivered exactly once each, in order,
\* to their targets; a message with a missing target makes step fail with
\* ModelNotFound; nothing produced during the step is delivered in it.
C7_AsStated ==
    [][op'.name = "step" =>
          LET ext == CallsOf(calls', "events_ext")
          IN /\ IsPrefix(ext, ExpectedExt(messages))
             /\ AllTargetsExist(messages, DOMAIN models) => ext = ExpectedExt(messages)
             /\ ~AllTargetsExist(messages, DOMAIN models) => ret' = Err("ModelNotFound")]_vars

\* C7 (amended): the pending messages are delivered in order, each at most once,
\* to their targets; delivery stops at the first message whose target is missing
\* (step fails with ModelNotFound) or whose events_ext fails (step fails with that
\* error); when neither happens each message is delivered exactly once; nothing
\* produced during the step is delivered in it.
C7_Delivery ==
    [][op'.name = "step" =>
          LET ext == CallsOf(calls', "events_ext")
              k == Len(ext)
          IN /\ IsPrefix(ext, ExpectedExt(messages))
             /\ op'.failed_in # "external" => ext = ExpectedExt(messages)
             /\ ~AllTargetsExist(messages, DOMAIN models) => op'.failed_in = "external"
             /\ op'.failed_in = "external" =>
                    \/ /\ ret' = Err("ModelNotFound")
                       /\ k < Len(messages)
                       /\ messages[k + 1].target_id \notin DOMAIN models
                    \/ /\ ret' = Err("ModelEventFailure")
                       /\ k >= 1
                       /\ events_ext(models[ext[k].model],
                                     [port_name |-> ext[k].port_name,
                                      content |-> ext[k].content]).failed]_vars

\* two pending messages delivered in order to two models in a successful step
C7_Witness ==
    /\ op.name = "step"
    /\ ret.kind = "ok"
    /\ Len(CallsOf(calls, "events_ext")) = 2
    /\ calls[1].model # calls[2].model

(***************************************************************************)
(* C9                                                                      *)
(***************************************************************************)
InjectAppends ==
    op'.name = "inject_input" =>
        /\ messages' = messages \o <<op'.message>>
        /\ UNCHANGED <<models, order, connectors, global_time>>

\* the step after an injection delivers every pending message, the injected one
\* last
InjectedIsDelivered ==
    LET ext == CallsOf(calls', "events_ext")
    IN /\ ext = ExpectedExt(messages)
       /\ ext[Len(ext)] = [call |-> "events_ext", model |-> op.message.target_id,
                           port_name |-> op.message.target_port,
                           content |-> op.message.content]

\* C9 as stated: inject_input appends the message to the pending set and changes
\* nothing else; the next step delivers it, after the messages that were already
\* pending, and advances global_time by 0.
C9_AsStated ==
    [][/\ InjectAppends
       /\ (op.name = "inject_input" /\ op'.name = "step") =>
              /\ global_time' = global_time
              /\ InjectedIsDelivered]_vars

\* C9 (amended): inject_input appends the message to the pending set and changes
\* nothing else; the next step advances global_time by 0 and, unless its external
\* phase fails at the injected message or at one pending before it, delivers the
\* injected message after the messages that were already pending.
C9_Inject ==
    [][/\ InjectAppends
       /\ (op.name = "inject_input" /\ op'.name = "step") =>
              /\ global_time' = global_time
              /\ op'.failed_in # "external" => InjectedIsDelivered]_vars

\* a message injected behind one that was already pending
C9_Witness ==
    /\ op.name = "inject_input"
    /\ Len(messages) >= 2
    /\ messages[Len(messages)] = op.message
    /\ messages[1] # op.message

(***************************************************************************)
(* C10                                                                     *)
(***************************************************************************)
\* C10: a step that fails in the external phase returns the error (ModelNotFound
\* for a missing target, else the error of the failing events_ext), leaves the
\* pending set and global_time as they were, and calls neither time_advance nor
\* events_int.
C10_ExternalFailure ==
    [][op'.name = "step" /\ op'.failed_in = "external" =>
          LET k == Len(CallsOf(calls', "events_ext"))
          IN /\ ret'.kind = "err"
             /\ (ret'.error = "ModelNotFound") <=>
                    (k < Len(messages) /\ messages[k + 1].target_id \notin DOMAIN models
                       /\ (k >= 1 => ~events_ext(models[calls'[k].model],
                                                 [port_name |-> calls'[k].port_name,
                                                  content |-> calls'[k].content]).failed))
             /\ messages' = messages
             /\ global_time' = global_time
             /\ \A i \in 1..Len(calls') : calls'[i].call = "events_ext"]_vars

\* a step that failed at its second pending message, the first one delivered
C10_Witness ==
    /\ op.name = "step"
    /\ op.failed_in = "external"
    /\ Len(messages) = 2
    /\ Len(calls) >= 1
    /\ global_time >= 1

(***************************************************************************)
(* C8                                                                      *)
(***************************************************************************)
Stepping == {"step", "step_n", "step_until"}

\* the global_time seen after each step of the last step_n / step_until, from
\* the value t before the call, never decreases
TraceMonotone(t, trace) ==
    \A i \in 1..Len(trace) :
        FLe(IF i = 1 THEN t ELSE trace[i - 1].global_time, trace[i].global_time)

\* C8: global_time never decreases across a step, nor across any step of step_n
\* or step_until (the models' until_next_event() are never negative).
C8_Monotone ==
    [][op'.name \in Stepping =>
          /\ FLe(global_time, global_time')
          /\ op'.name # "step" => TraceMonotone(global_time, op'.trace)]_vars

\* a step_n of two steps, the second of which advanced time
C8_Witness ==
    /\ op.name = "step_n"
    /\ ret.kind = "ok"
    /\ Len(op.trace) = 2
    /\ op.trace[1].global_time < op.trace[2].global_time
    /\ global_time = op.trace[2].global_time

(***************************************************************************)
(* C11                                                                     *)
(***************************************************************************)
\* C11: a step in which an events_int fails returns that error (a result that
\* carries no message), global_time keeps the value reached by the step's time
\* advance, and none of the messages routed from the models that fired before
\* the failure is in the pending set afterwards.
C11_InternalFailure ==
    [][op'.name = "step" /\ op'.failed_in = "internal" =>
          /\ ret' = Err("ModelEventFailure")
          /\ calls'[Len(calls')].call = "events_int"
          /\ events_int(models'[calls'[Len(calls')].model]).failed
          /\ global_time' = Plus(global_time, ExpectedDelta(models, messages))
          /\ op'.next_messages = ExpectedBuffer(calls', connectors, global_time')
          /\ \A n \in 1..Len(op'.next_messages) :
                op'.next_messages[n] \notin Range(messages')]_vars

\* a step that advanced time, in which one model fired and emitted routed
\* messages before the events_int of another failed
C11_Witness ==
    /\ op.name = "step"
    /\ op.failed_in = "internal"
    /\ op.next_messages # <<>>
    /\ global_time >= 1
    /\ \E i \in 1..Len(calls) : calls[i].call = "time_advance" /\ calls[i].delta >= 1

(***************************************************************************)
(* C12                                                                     *)
(***************************************************************************)
\* C12 as stated: after a step that fails in the internal phase the pending set
\* is discarded: no message that was pending before the step (and was delivered
\* in its external phase) is pending any more.
C12_AsStated ==
    [][op'.name = "step" /\ op'.failed_in = "internal" => messages' = <<>>]_vars

(***************************************************************************)
(* C13                                                                     *)
(***************************************************************************)
ConnectorTargetsExist(conns, ids) ==
    \A c \in 1..Len(conns) : conns[c].target_id \in ids

\* C13 as stated: after every successful step each message of the pending set
\* has a target_id that is the id of a model of the simulation.
C13_AsStated ==
    (op.name = "step" /\ ret.kind = "ok") => AllTargetsExist(messages, DOMAIN models)

\* C13 (amended): in a simulation in which every connector's target_id is the id
\* of a model, after every successful step each message of the pending set has
\* a target_id that is the id of a model of the simulation.
C13_TargetsResolve ==
    (op.name = "step" /\ ret.kind = "ok"
        /\ ConnectorTargetsExist(connectors, DOMAIN models))
        => AllTargetsExist(messages, DOMAIN models)

\* a successful step that left two messages pending, all connectors resolving
C13_Witness ==
    /\ op.name = "step"
    /\ ret.kind = "ok"
    /\ ConnectorTargetsExist(connectors, DOMAIN models)
    /\ Len(messages) = 2

(***************************************************************************)
(* C14                                                                     *)
(***************************************************************************)
\* C14: a step taken right after a check() that returned Ok (nothing injected in
\* between) does not fail with ModelNotFound: every pending message is handed to
\* its target, whatever the connectors name.
C14_NoLookupFailure ==
    [][(op.name = "check" /\ ret.kind = "ok" /\ op'.name = "step") =>
          /\ ret' # Err("ModelNotFound")
          /\ CallsOf(calls', "events_ext") # ExpectedExt(messages)
                => ret' = Err("ModelEventFailure")]_vars

\* check() returned Ok with two messages pending, and the step from there
\* delivers both
C14_Witness ==
    /\ op.name = "check"
    /\ ret.kind = "ok"
    /\ Len(messages) = 2
    /\ step(CurrentSim).ret.kind = "ok"
    /\ Len(CallsOf(step(CurrentSim).calls, "events_ext")) = 2

(***************************************************************************)
(* C20                                                                     *)
(***************************************************************************)
NoSharedId(list) == \A i, j \in 1..Len(list) : list[i] = list[j] => i = j

SharedIds(list) == {list[i] : i \in {k \in 1..Len(list) :
                                        \E j \in 1..Len(list) : j # k /\ list[j] = list[k]}}

\* C20 as stated: on a simulation built by post from a list of models,
\* unique_model_ids returns Ok exactly when no two models of the list share an
\* id, and otherwise an error that lists every shared id.
C20_AsStated ==
    op.name = "unique_model_ids" =>
        /\ ret.kind = "ok" <=> NoSharedId(op.models)
        /\ ret.kind = "err" => Range(ret.error.ids) = SharedIds(op.models)

(***************************************************************************)
(* C15                                                                     *)
(***************************************************************************)
\* the pending sets seen after each step of a run, one after the other
TraceMessages(trace) == Flatten([i \in 1..Len(trace) |-> trace[i].messages])

\* C15 as stated: step_until returns the messages of every step it executed, in
\* step order, those of the final step included.
C15_AsStated ==
    (op.name = "step_until" /\ ret.kind = "ok") => ret.value = TraceMessages(op.trace)

(***************************************************************************)
(* C16                                                                     *)
(***************************************************************************)
\* every step of the run but the last one succeeded and ended before `until`
EarlierStepsBefore(trace, until) ==
    \A i \in 1..(Len(trace) - 1) :
        trace[i].ret.kind = "ok" /\ FLt(trace[i].global_time, until)

C17_StepN ==
    [][op'.name = "step_n" =>
          LET trace == op'.trace
          IN /\ Len(trace) <= op'.n
             /\ \A i \in 1..(Len(trace) - 1) : trace[i].ret.kind = "ok"
             /\ ret'.kind = "ok" =>
                    /\ Len(trace) = op'.n
                    /\ \A i \in 1..Len(trace) : trace[i].ret.kind = "ok"
                    /\ ret'.value = TraceMessages(trace)
             /\ ret'.kind # "ok" =>
                    /\ Len(trace) >= 1
                    /\ ret' = trace[Len(trace)].ret
             /\ Len(trace) >= 1 =>
                    /\ global_time' = trace[Len(trace)].global_time
                    /\ messages' = trace[Len(trace)].messages
             /\ op'.n = 0 =>
                    /\ ret' = Ok(<<>>)
                    /\ calls' = <<>>
                    /\ UNCHANGED <<models, order, connectors, messages, global_time>>]_vars

\* a step_n of two steps that both left messages pending
C17_Witness ==
    /\ op.name = "step_n"
    /\ op.n = 2
    /\ ret.kind = "ok"
    /\ op.trace[1].messages # <<>>
    /\ op.trace[2].messages # <<>>
    /\ ret.value = op.trace[1].messages \o op.trace[2].messages

(***************************************************************************)
(* C18                                                                     *)
(***************************************************************************)
\* step_n(a)?; step_n(b): the second call is made when the first returned Ok
StepNTwice(s, a, b) ==
    LET first == step_n(s, a)
        second == step_n(first.sim, b)
    IN IF first.ret.kind # "ok"
       THEN [sim |-> first.sim, ret |-> first.ret]
       ELSE IF second.ret.kind # "ok"
       THEN [sim |-> second.sim, ret |-> second.ret]
       ELSE [sim |-> second.sim, ret |-> Ok(first.ret.value \o second.ret.value)]

\* C18: from every state, step_n(a) followed by step_n(b) ends in the simulation
\* state (models, pending set, global_time) in which step_n(a + b) ends, and
\* the two returned lists, one after the other, are the list step_n(a + b)
\* returns; when a step fails both ways end at that step with its error.
C18_StepNComposes ==
    \A a, b \in 0..MaxN :
        LET twice == StepNTwice(CurrentSim, a, b)
            once == step_n(CurrentSim, a + b)
        IN /\ twice.sim = once.sim
           /\ twice.ret = once.ret

\* after a step_n(1) that returned messages, a state from which a further
\* step_n(1) returns messages too
C18_Witness ==
    /\ op.name = "step_n"
    /\ op.n = 1
    /\ ret.kind = "ok"
    /\ ret.value # <<>>
    /\ step_n(CurrentSim, 1).ret.kind = "ok"
    /\ step_n(CurrentSim, 1).ret.value # <<>>

(***************************************************************************)
(* C19                                                                     *)
(***************************************************************************)
\* C19: reset leaves global_time 0 and the pending set empty and changes neither
\* the models (their state and time to next event) nor the connectors;
\* reset_messages changes the pending set only, reset_global_time the time only.
C19_ResetFrame ==
    [][/\ op'.name = "reset" =>
              /\ global_time' = 0
              /\ messages' = <<>>
              /\ UNCHANGED <<models, order, connectors>>
       /\ op'.name = "reset_messages" =>
              /\ messages' = <<>>
              /\ UNCHANGED <<models, order, connectors, global_time>>
       /\ op'.name = "reset_global_time" =>
              /\ global_time' = 0
              /\ UNCHANGED <<models, order, connectors, messages>>]_vars

\* after a reset: the generator is part way to its next event and the processor
\* holds a job
C19_Witness ==
    /\ op.name = "reset"
    /\ global_time = 0
    /\ messages = <<>>
    /\ GenId \in DOMAIN models /\ ProcId \in DOMAIN models
    /\ models[GenId].until < MaxDelay
    /\ models[ProcId].job # "none"

(***************************************************************************)
(* C21                                                                     *)
(***************************************************************************)
BadSources(conns, ids) == {c \in 1..Len(conns) : conns[c].source_id \notin ids}

BadTargets(conns, ids) == {c \in 1..Len(conns) : conns[c].target_id \notin ids}

Least(S) == CHOOSE i \in S : \A j \in S : i <= j

\* the result is Ok when no connector is in `bad`, else an error about the first
\* connector of `bad`
OkOrFirstOf(result, conns, bad) ==
    /\ result.kind = "ok" <=> bad = {}
    /\ bad # {} => /\ result.kind = "err"
                   /\ result.error.connector = conns[Least(bad)].id

\* C21: connectors_source_to_model is Ok exactly when every connector's
\* source_id is a model id, connectors_target_to_model exactly when every
\* target_id is; otherwise each returns an error for the first offending
\* connector in declaration order.
C21_ConnectorChecks ==
    /\ OkOrFirstOf(connectors_source_to_model(CurrentSim), connectors,
                   BadSources(connectors, DOMAIN models))
    /\ OkOrFirstOf(connectors_target_to_model(CurrentSim), connectors,
                   BadTargets(connectors, DOMAIN models))

\* check() ran on the three models with the dangling third connector: both
\* checks fail at connector-fake, after two connectors that resolve
C21_Witness ==
    /\ op.name = "check"
    /\ connectors = ConnectorsBad
    /\ DOMAIN models = {GenId, ProcId, StoreId}
    /\ ret.kind = "err"
    /\ ret.error.connector = "connector-fake"
    /\ connectors_target_to_model(CurrentSim).kind = "err"

(***************************************************************************)
(* C22                                                                     *)
(***************************************************************************)
\* the four checks in the order check() reads them
FourChecks(s) ==
    <<unique_model_ids(s), connectors_source_to_model(s),
      connectors_target_to_model(s), valid_messages(s)>>

FailingChecks(s) == {i \in 1..4 : FourChecks(s)[i].kind # "ok"}

\* C22: check() returns Ok exactly when the four checks return Ok, else the
\* error of the first failing one in the order unique_model_ids,
\* connectors_source_to_model, connectors_target_to_model, valid_messages;
\* valid_messages is Ok exactly when every pending target_id is a model id;
\* check() changes nothing of the simulation.
C22_Check ==
    [][op'.name = "check" =>
          /\ ret'.kind = "ok" <=> FailingChecks(CurrentSim) = {}
          /\ FailingChecks(CurrentSim) # {} =>
                 ret' = FourChecks(CurrentSim)[Least(FailingChecks(CurrentSim))]
          /\ valid_messages(CurrentSim).kind = "ok"
                 <=> AllTargetsExist(messages, DOMAIN models)
          /\ UNCHANGED <<models, order, connectors, messages, global_time>>]_vars

\* check() returned the error of the target check, the pending messages being
\* invalid too
C22_Witness ==
    /\ op.name = "check"
    /\ ret = connectors_target_to_model(CurrentSim)
    /\ FailingChecks(CurrentSim) = {3, 4}

(***************************************************************************)
(* C24                                                                     *)
(***************************************************************************)
\* C24 as stated: when connectors_target_to_model fails, its error names the
\* first connector whose target_id is not a model id and reports that
\* connector's target_id as the id not found.
C24_AsStated ==
    LET result == connectors_target_to_model(CurrentSim)
        bad == BadTargets(connectors, DOMAIN models)
    IN result.kind = "err" =>
          /\ result.error.connector = connectors[Least(bad)].id
          /\ result.error.id = connectors[Least(bad)].target_id

(***************************************************************************)
(* C23                                                                     *)
(***************************************************************************)
\* C23 as stated: with no model and nothing pending, step completes: the least
\* time to the next event is taken as +infinity, no model is called and the
\* pending set stays empty.
C23_AsStated ==
    [][(op'.name = "step" /\ DOMAIN models = {} /\ messages = <<>>) =>
          /\ ret' = Ok(<<>>)
          /\ calls' = <<>>
          /\ messages' = <<>>]_vars

(***************************************************************************)
(* C25                                                                     *)
(***************************************************************************)
\* C25: in a successful step that starts with nothing pending and in which the
\* least until_next_event() of the models is finite, every model that attains
\* the least value fires events_int, and there is at least one.
C25_Progress ==
    [][(op'.name = "step" /\ ret'.kind = "ok" /\ messages = <<>>
          /\ DOMAIN models # {} /\ MinUntil(models) < Infinity) =>
          /\ \E id \in DOMAIN models : models[id].until = MinUntil(models)
          /\ \A id \in DOMAIN models :
                models[id].until = MinUntil(models)
                    => HasCall(calls', "events_int", id)]_vars

\* a successful step from an empty pending set that advanced time by a finite
\* amount and fired a model, another model staying short of its event
C25_Witness ==
    /\ op.name = "step"
    /\ ret.kind = "ok"
    /\ CallsOf(calls, "events_ext") = <<>>
    /\ \E i, j \in 1..Len(calls) :
        /\ calls[i].call = "time_advance"
        /\ calls[i].delta >= 1 /\ calls[i].delta < Infinity
        /\ calls[i].until >= 1 /\ calls[i].until < Infinity
        /\ calls[j].call = "events_int"

(***************************************************************************)
(* C26                                                                     *)
(***************************************************************************)
\* the models after the messages msgs have been handed to their targets
RECURSIVE Delivered(_, _)
Delivered(mdls, msgs) ==
    IF msgs = <<>> THEN mdls
    ELSE LET id == Head(msgs).target_id
             mm == [port_name |-> Head(msgs).target_port,
                    content |-> Head(msgs).content]
         IN Delivered([mdls EXCEPT ![id] = events_ext(mdls[id], mm).state],
                      Tail(msgs))

\* the position in the pending set at which the external phase failed
FailedAt(log, result) ==
    IF result = Err("ModelNotFound")
    THEN Len(CallsOf(log, "events_ext")) + 1
    ELSE Len(CallsOf(log, "events_ext"))

\* C26: when the external phase of a step fails at the k-th pending message, the
\* first k-1 messages have been delivered and their effect on the models stays,
\* no later message has been delivered and the pending set is as it was; a
\* step taken next delivers those first k-1 messages again.
C26_ExternalNotAtomic ==
    [][/\ (op'.name = "step" /\ op'.failed_in = "external") =>
              LET k == FailedAt(calls', ret')
              IN /\ k >= 1 /\ k <= Len(messages)
                 /\ models' = Delivered(models, SubSeq(messages, 1, k - 1))
                 /\ SubSeq(CallsOf(calls', "events_ext"), 1, k - 1)
                        = ExpectedExt(SubSeq(messages, 1, k - 1))
                 /\ Len(CallsOf(calls', "events_ext")) <= k
                 /\ messages' = messages
       /\ (op.name = "step" /\ op.failed_in = "external" /\ op'.name = "step") =>
              LET k == FailedAt(calls, ret)
              IN IsPrefix(ExpectedExt(SubSeq(messages, 1, k - 1)),
                          CallsOf(calls', "events_ext"))]_vars

\* a step that failed at its second pending message after the first one, a
\* read, had made the storage due
C26_Witness ==
    /\ op.name = "step"
    /\ op.failed_in = "external"
    /\ Len(messages) = 2
    /\ Len(calls) >= 1
    /\ calls[1].model = StoreId
    /\ calls[1].port_name = "read"
    /\ models[StoreId].until = 0

(***************************************************************************)
(* C28                                                                     *)
(***************************************************************************)
\* the first pending message whose target is not a model
FirstMissing(msgs, ids) == Least({i \in 1..Len(msgs) : msgs[i].target_id \notin ids})

C27_StepsKeepTargets ==
    [][/\ op'.name = "step" =>
              /\ DOMAIN models' = DOMAIN models
              /\ order' = order
              /\ connectors' = connectors
       /\ (op.name = "step" /\ ret.kind = "ok"
              /\ ConnectorTargetsExist(connectors, DOMAIN models)) =>
              /\ AllTargetsExist(messages, DOMAIN models)
              /\ op'.name = "step" =>
                     /\ ret' # Err("ModelNotFound")
                     /\ ret'.kind = "ok" =>
                            AllTargetsExist(messages', DOMAIN models')]_vars

\* the second step of a run without a storage, the only connector resolving:
\* it delivered the generator's job to the processor
C27_Witness ==
    /\ op.name = "step"
    /\ ret.kind = "ok"
    /\ DOMAIN models = {GenId, ProcId}
    /\ connectors = ConnectorsJob
    /\ \E i \in 1..Len(calls) :
        /\ calls[i].call = "events_ext"
        /\ calls[i].model = ProcId
        /\ calls[i].content = "job"

(***************************************************************************)
(* C29                                                                     *)
(***************************************************************************)
NonDecreasingTimes(msgs) ==
    \A i, j \in 1..Len(msgs) : i < j => FLe(msgs[i].time, msgs[j].time)

StampedAt(msgs, t) == \A i \in 1..Len(msgs) : msgs[i].time = t

\* C29: the messages a successful step leaves pending all carry the global_time
\* at the end of that step; in the list step_n or step_until returns the times
\* never decrease and none is later than the final global_time.
C29_MessageTimes ==
    [][/\ (op'.name = "step" /\ ret'.kind = "ok") => StampedAt(messages', global_time')
       /\ op'.name \in {"step_n", "step_until"} =>
              /\ \A i \in 1..Len(op'.trace) :
                    op'.trace[i].ret.kind = "ok" =>
                        StampedAt(op'.trace[i].messages, op'.trace[i].global_time)
              /\ ret'.kind = "ok" =>
                     /\ NonDecreasingTimes(ret'.value)
                     /\ \A i \in 1..Len(ret'.value) :
                            FLe(ret'.value[i].time, global_time')]_vars

\* a step_until that returned messages produced at two different times
C29_Witness ==
    /\ op.name = "step_until"
    /\ ret.kind = "ok"
    /\ Len(ret.value) >= 2
    /\ ret.value[1].time < ret.value[Len(ret.value)].time
    /\ ret.value[Len(ret.value)].time <= global_time

====
